---- MODULE Spec2Model ----
(***************************************************************************)
(* Model of the shahryar-app repository.                                   *)
(*                                                                         *)
(*  - Audio Bridge: the useLiveGemini hook (src/hooks/useLiveGemini.ts):   *)
(*    connect / disconnect, the four session callbacks, the capture loop   *)
(*    and the playback scheduling of received audio chunks.                *)
(*  - Persistence Service: the express server (src/unnamed/part_000):      *)
(*    the JSON document and the routes that read and rewrite it.           *)
(*                                                                         *)
(* The two parts share no state.  BridgeSpec is the whole bridge;          *)
(* PlaybackSpec, LifecycleSpec and ToolSpec are the parts of it that the   *)
(* claims are checked under.  StoreSpec, AccountSpec, SessionSpec and      *)
(* MutationSpec are the routes of the service.                             *)
(***************************************************************************)
EXTENDS Integers, Sequences, FiniteSets, TLC

----------------------------------------------------------------------------
(* Bounds of the model *)

\* number of connect() calls in a behaviour
MaxConnects == 2
\* number of messages delivered to onmessage in a behaviour
MaxMsgs == 3
\* largest value of an audio channel's clock (AudioContext.currentTime)
MaxTime == 1
\* largest duration of a decoded audio buffer
MaxDur == 1
\* number of function calls carried by all messages of a behaviour
MaxCalls == 2
\* number of captured audio blocks sent over one session
MaxFrames == 1
\* number of identity records in the document
MaxUsers == 2
\* largest value of the server's clock (Date.now())
MaxNow == 2

Conns == 1..MaxConnects
MsgIds == 1..MaxMsgs
Durations == 1..MaxDur

----------------------------------------------------------------------------
(* Values *)

\* a ref holding null (useRef(null)), and the null error of useState(null)
NullRef == 0
NoError == "null"

SearchTool == "search_knowledge_base"
ToolNames == {SearchTool, "other_tool"}
Queries == {"pesteh", "bazar"}

Max(a, b) == IF a >= b THEN a ELSE b

\* a request field that is absent or empty (falsy)
Missing == ""
Phones == {"0912", "0913"}
Passwords == {"pass", "wrong"}
Names == {"Ali"}
Ids == {ToString(n) : n \in 1..MaxNow}
NoBody == <<>>
SessionIds == {"s1", "s2"}
\* what a session record holds besides its id (userId, title, messages, ...)
Payloads == {"chat-a", "chat-b"}

----------------------------------------------------------------------------
VARIABLES
    \* --- hook state (useState / useRef) ---
    isConnected,            \* useState(false)
    isSpeaking,             \* useState(false)
    error,                  \* useState(null)
    inputAudioContextRef,   \* NullRef or the id of the capture channel
    outputAudioContextRef,  \* NullRef or the id of the playback channel
    sessionPromiseRef,      \* NullRef or the id of the session promise
    nextStartTimeRef,       \* the scheduling cursor
    sourcesRef,             \* the active playback set (ids of playback units)
    \* --- environment of the hook ---
    apiKey,                 \* whether process.env holds a credential
    conn,                   \* conn[i]: where the i-th connect() call stands
    promise,                \* promise[i]: state of the i-th sessionPromise
    link,                   \* link[i]: state of the i-th vendor connection
    closeReq,               \* closeReq[i]: session.close() of disconnect
    capturing,              \* connects whose onaudioprocess is wired
    ctxClosed,              \* connects whose two audio channels are closed
    ctxTime,                \* ctxTime[i]: currentTime of i's playback channel
    received,               \* number of messages handed to onmessage
    unit,                   \* unit[m]: the audio chunk of message m, from its
                            \* arrival to the 'ended' event of its playback unit
    calls,                  \* the function calls received, in order
    toolResponses,          \* the sendToolResponse calls made, in order
    frames,                 \* frames[i]: sendRealtimeInput calls on session i
    \* --- history ---
    interruptMark,          \* messages received when the last interruption ran
    \* --- persistence service ---
    users,                  \* db.users of database.json
    sessions,               \* db.sessions of database.json
    dbNow,                  \* Date.now() of the server
    resp                    \* the last HTTP response

bridgeVars == <<isConnected, isSpeaking, error, inputAudioContextRef,
                outputAudioContextRef, sessionPromiseRef, nextStartTimeRef,
                sourcesRef, apiKey, conn, promise, link, closeReq, capturing,
                ctxClosed, ctxTime, received, unit, calls, toolResponses,
                frames, interruptMark>>

storeVars == <<users, sessions, dbNow, resp>>

vars == <<bridgeVars, storeVars>>

\* unit[m].state: "none" (no chunk in message m), "decoding" (the handler awaits
\* decodeAudioData), "playing" (started, in the active set), "stopped" (stopped
\* by an interruption, 'ended' not yet dispatched), "ended", "failed" (the
\* decode threw).  interrupted: the message also carries the interruption
\* flag.  prev: the preceding chunk, when this one arrived before that chunk's
\* unit had finished playing (0 otherwise).  A unit that is over keeps only
\* its state.
Chunk(st) == [state |-> st, ctx |-> 0, start |-> 0, dur |-> 0, endAt |-> 0,
              interrupted |-> FALSE, prev |-> 0]
NoUnit == Chunk("none")

----------------------------------------------------------------------------
(* Audio Bridge: pure steps of the message handler *)

\* getLocalKnowledge: the canned answer, with the query quoted in it
getLocalKnowledge(query) == [quoted |-> query, text |-> "rafsanjan-pesteh"]

\* the function calls a message may carry: sequences of (name, query)
CallSeqs(k) ==
    UNION {[1..n -> [name : ToolNames, query : Queries]] : n \in 0..k}

\* the calls of a message, with the ids the vendor gave them and the other
\* content of the message (an audio chunk, the interruption flag)
TagCalls(fcs, base, audio, intr) ==
    [k \in 1..Len(fcs) |->
        [id |-> base + k, name |-> fcs[k].name, query |-> fcs[k].query,
         audio |-> audio, interrupted |-> intr]]

\* (mutant) a tool-call branch that answers every call, whatever its name
ToolCallBranchAnyName(fcs) ==
    [k \in 1..Len(fcs) |->
        [id |-> fcs[k].id, name |-> fcs[k].name,
         response |-> [result |-> getLocalKnowledge(fcs[k].query)]]]

\* tool-call branch: one response per call named search_knowledge_base
ToolCallBranch(fcs) ==
    LET sel == SelectSeq(fcs, LAMBDA fc : fc.name = SearchTool)
    IN  [k \in 1..Len(sel) |->
            [id |-> sel[k].id, name |-> sel[k].name,
             response |-> [result |-> getLocalKnowledge(sel[k].query)]]]

\* nextStartTimeRef.current = Math.max(nextStartTimeRef.current, ctx.currentTime)
CursorOnArrival(cursor, now) == Max(cursor, now)

\* nextStartTimeRef.current += audioBuffer.duration
CursorAfterStart(cursor, dur) == cursor + dur

\* source.start(when): playback begins at `when`, or at once if it is past
PlaybackUnit(u, when, dur, now) ==
    [u EXCEPT !.state = "playing", !.start = when, !.dur = dur,
              !.endAt = Max(when, now) + dur]

\* the 'ended' listener: delete the unit, speaking=false if the set is empty
SpeakingAfterEnded(srcs, speaking) == IF srcs = {} THEN FALSE ELSE speaking

\* (mutant) an interrupted branch that leaves the scheduling cursor alone
InterruptBranchKeepsCursor(srcs, cursor, speaking) ==
    [sources |-> {}, cursor |-> cursor, speaking |-> FALSE]

\* interrupted branch: stop every unit, clear the set, cursor 0, not speaking
InterruptBranch(srcs, cursor, speaking) ==
    [sources |-> {}, cursor |-> 0, speaking |-> FALSE]

\* s.stop() on every unit of the active set
StopSources(u, srcs) ==
    [m \in MsgIds |-> IF m \in srcs THEN [u[m] EXCEPT !.state = "stopped"]
                                    ELSE u[m]]

\* the chunk that precedes message m, if its unit has not finished playing
\* when m arrives (0 otherwise)
Unfinished(u, clock) ==
    \/ u.state = "decoding"
    \/ u.state = "playing" /\ clock[u.ctx] < u.endAt

PrevChunk(u, m, clock) ==
    LET earlier == {a \in MsgIds : a < m /\ u[a].state # "none"}
    IN  IF earlier = {} THEN 0
        ELSE LET a == CHOOSE x \in earlier : \A y \in earlier : y <= x
             IN  IF Unfinished(u[a], clock) THEN a ELSE 0

hookFlags == <<isConnected, error>>
refs == <<inputAudioContextRef, outputAudioContextRef, sessionPromiseRef>>
sessionVars == <<apiKey, conn, promise, link, closeReq, capturing, ctxClosed>>
toolVars == <<calls, toolResponses, frames>>
playVars == <<nextStartTimeRef, sourcesRef, isSpeaking, received, unit,
              interruptMark>>

----------------------------------------------------------------------------
(* Audio Bridge: onmessage *)

\* onmessage of session i, up to its first suspension (await decodeAudioData)
\* or to its end.  The tool responses go out through sessionPromise.then,
\* and the promise is resolved whenever a message is delivered.
OnMessage(i, audio, intr, fcs) ==
    /\ promise[i] = "resolved"
    /\ link[i] = "up"
    /\ received < MaxMsgs
    /\ Len(calls) + Len(fcs) <= MaxCalls
    /\ LET m == received + 1
           c == outputAudioContextRef
           tagged == TagCalls(fcs, Len(calls), audio, intr)
       IN  /\ received' = m
           /\ calls' = calls \o tagged
           /\ toolResponses' = toolResponses \o ToolCallBranch(tagged)
           /\ IF audio
              THEN /\ isSpeaking' = TRUE
                   /\ IF c = NullRef
                      THEN UNCHANGED <<nextStartTimeRef, unit>>
                      ELSE /\ nextStartTimeRef' =
                                CursorOnArrival(nextStartTimeRef, ctxTime[c])
                           /\ unit' = [unit EXCEPT ![m] =
                                [Chunk("decoding") EXCEPT
                                    !.ctx = c, !.interrupted = intr,
                                    !.prev = PrevChunk(unit, m, ctxTime)]]
                   /\ UNCHANGED <<sourcesRef, interruptMark>>
              ELSE IF intr
              THEN LET after == InterruptBranch(sourcesRef, nextStartTimeRef,
                                                isSpeaking)
                   IN  /\ unit' = StopSources(unit, sourcesRef)
                       /\ sourcesRef' = after.sources
                       /\ nextStartTimeRef' = after.cursor
                       /\ isSpeaking' = after.speaking
                       /\ interruptMark' = m
              ELSE UNCHANGED <<nextStartTimeRef, sourcesRef, isSpeaking, unit,
                               interruptMark>>
    /\ UNCHANGED <<hookFlags, refs, sessionVars, ctxTime, frames, storeVars>>

\* decodeAudioData resolved with a buffer of duration dur: the handler of
\* message m resumes, starts the unit, and then runs the interrupted branch
\* if the message carries the flag
DecodeResolved(m, dur) ==
    /\ unit[m].state = "decoding"
    /\ LET c == unit[m].ctx
           u == PlaybackUnit(unit[m], nextStartTimeRef, dur, ctxTime[c])
           cursor1 == CursorAfterStart(nextStartTimeRef, dur)
           sources1 == sourcesRef \cup {m}
           unit1 == [unit EXCEPT ![m] = u]
       IN  IF unit[m].interrupted
           THEN LET after == InterruptBranch(sources1, cursor1, isSpeaking)
                IN  /\ unit' = StopSources(unit1, sources1)
                    /\ sourcesRef' = after.sources
                    /\ nextStartTimeRef' = after.cursor
                    /\ isSpeaking' = after.speaking
                    /\ interruptMark' = received
           ELSE /\ unit' = unit1
                /\ sourcesRef' = sources1
                /\ nextStartTimeRef' = cursor1
                /\ UNCHANGED <<isSpeaking, interruptMark>>
    /\ UNCHANGED <<hookFlags, refs, sessionVars, ctxTime, received, toolVars,
                   storeVars>>

\* decodeAudioData rejected: the handler of message m ends with the exception
DecodeRejected(m) ==
    /\ unit[m].state = "decoding"
    /\ unit' = [unit EXCEPT ![m] = Chunk("failed")]
    /\ UNCHANGED <<hookFlags, refs, sessionVars, ctxTime, received, toolVars,
                   nextStartTimeRef, sourcesRef, isSpeaking, interruptMark,
                   storeVars>>

\* the 'ended' event of unit m: it played to its end, or it was stopped
Ended(m) ==
    /\ unit[m].ctx \notin ctxClosed
    /\ \/ unit[m].state = "stopped"
       \/ unit[m].state = "playing" /\ ctxTime[unit[m].ctx] >= unit[m].endAt
    /\ unit' = [unit EXCEPT ![m] = Chunk("ended")]
    /\ sourcesRef' = sourcesRef \ {m}
    /\ isSpeaking' = SpeakingAfterEnded(sourcesRef', isSpeaking)
    /\ UNCHANGED <<hookFlags, refs, sessionVars, ctxTime, received, toolVars,
                   nextStartTimeRef, interruptMark, storeVars>>

\* the clocks of the open playback channels advance
Tick ==
    /\ \E c \in Conns : conn[c] # "none" /\ c \notin ctxClosed
                        /\ ctxTime[c] < MaxTime
    /\ ctxTime' = [c \in Conns |->
                     IF conn[c] # "none" /\ c \notin ctxClosed
                        /\ ctxTime[c] < MaxTime
                     THEN ctxTime[c] + 1 ELSE ctxTime[c]]
    /\ UNCHANGED <<hookFlags, refs, sessionVars, playVars, toolVars,
                   storeVars>>

----------------------------------------------------------------------------
(* Audio Bridge: connect, the session callbacks, the capture loop, disconnect *)

\* the connect() call that comes next
NextConn == IF \E i \in Conns : conn[i] = "none"
            THEN CHOOSE i \in Conns :
                    conn[i] = "none" /\ \A j \in Conns : j < i => conn[j] # "none"
            ELSE 0

\* the catch block of connect: setError(err.message || "Failed to connect")
ConnectCatch(message) == IF message = "" THEN "Failed to connect" ELSE message

\* connect(), up to its first await (getUserMedia), or to the catch block when
\* no credential is configured
Connect(i) ==
    /\ i = NextConn
    /\ IF ~apiKey
       THEN /\ error' = ConnectCatch("API Key missing")
            /\ conn' = [conn EXCEPT ![i] = "failed"]
            /\ UNCHANGED <<inputAudioContextRef, outputAudioContextRef>>
       ELSE /\ inputAudioContextRef' = i
            /\ outputAudioContextRef' = i
            /\ conn' = [conn EXCEPT ![i] = "mic"]
            /\ UNCHANGED error
    /\ UNCHANGED <<isConnected, sessionPromiseRef, apiKey, promise, link,
                   closeReq, capturing, ctxClosed, ctxTime, playVars, toolVars,
                   storeVars>>

\* getUserMedia resolved: connect goes on to await getSystemInstruction
MicGranted(i) ==
    /\ conn[i] = "mic"
    /\ conn' = [conn EXCEPT ![i] = "instr"]
    /\ UNCHANGED <<hookFlags, refs, apiKey, promise, link, closeReq, capturing,
                   ctxClosed, ctxTime, playVars, toolVars, storeVars>>

\* getUserMedia rejected: the catch block
MicDenied(i) ==
    /\ conn[i] = "mic"
    /\ conn' = [conn EXCEPT ![i] = "failed"]
    /\ error' = ConnectCatch("Permission denied")
    /\ UNCHANGED <<isConnected, refs, apiKey, promise, link, closeReq,
                   capturing, ctxClosed, ctxTime, playVars, toolVars, storeVars>>

\* getSystemInstruction resolved: ai.live.connect is called (not awaited),
\* its promise is stored in sessionPromiseRef, and connect() returns
LiveConnect(i) ==
    /\ conn[i] = "instr"
    /\ conn' = [conn EXCEPT ![i] = "settled"]
    /\ promise' = [promise EXCEPT ![i] = "pending"]
    /\ link' = [link EXCEPT ![i] = "up"]
    /\ sessionPromiseRef' = i
    /\ UNCHANGED <<hookFlags, inputAudioContextRef, outputAudioContextRef,
                   apiKey, closeReq, capturing, ctxClosed, ctxTime, playVars,
                   toolVars, storeVars>>

\* getSystemInstruction rejected (the task lookup failed): the catch block
InstructionFailed(i) ==
    /\ conn[i] = "instr"
    /\ conn' = [conn EXCEPT ![i] = "failed"]
    /\ error' = ConnectCatch("")
    /\ UNCHANGED <<isConnected, refs, apiKey, promise, link, closeReq,
                   capturing, ctxClosed, ctxTime, playVars, toolVars, storeVars>>

\* onopen: setIsConnected(true) and the capture loop is wired; the session
\* promise resolves in the same task, which runs a close() queued on it
OnOpen(i) ==
    /\ promise[i] = "pending"
    /\ link[i] = "up"
    /\ isConnected' = TRUE
    /\ capturing' = capturing \cup {i}
    /\ promise' = [promise EXCEPT ![i] = "resolved"]
    /\ closeReq' = [closeReq EXCEPT ![i] = IF @ = "queued" THEN "sent" ELSE @]
    /\ UNCHANGED <<error, refs, apiKey, conn, link, ctxClosed, ctxTime,
                   playVars, toolVars, storeVars>>

\* the session promise rejects: nothing awaits it and no reaction runs
HandshakeRejected(i) ==
    /\ promise[i] = "pending"
    /\ promise' = [promise EXCEPT ![i] = "rejected"]
    /\ UNCHANGED <<hookFlags, refs, apiKey, conn, link, closeReq, capturing,
                   ctxClosed, ctxTime, playVars, toolVars, storeVars>>

\* onclose
OnClose(i) ==
    /\ link[i] \in {"up", "errored"}
    /\ link' = [link EXCEPT ![i] = "closed"]
    /\ isConnected' = FALSE
    /\ isSpeaking' = FALSE
    /\ UNCHANGED <<error, refs, apiKey, conn, promise, closeReq, capturing,
                   ctxClosed, ctxTime, nextStartTimeRef, sourcesRef, received,
                   unit, interruptMark, toolVars, storeVars>>

\* onerror
OnError(i) ==
    /\ link[i] = "up"
    /\ link' = [link EXCEPT ![i] = "errored"]
    /\ error' = "Connection Error"
    /\ isConnected' = FALSE
    /\ UNCHANGED <<refs, apiKey, conn, promise, closeReq, capturing, ctxClosed,
                   ctxTime, playVars, toolVars, storeVars>>

\* scriptProcessor.onaudioprocess of connect i: the block is sent through
\* sessionPromise.then; the promise is resolved once the loop is wired.
\* The loop runs as long as its capture channel is open.
AudioProcess(i) ==
    /\ i \in capturing
    /\ i \notin ctxClosed
    /\ promise[i] = "resolved"
    /\ frames[i] < MaxFrames
    /\ frames' = [frames EXCEPT ![i] = @ + 1]
    /\ UNCHANGED <<hookFlags, refs, sessionVars, ctxTime, playVars, calls,
                   toolResponses, storeVars>>

\* (mutant) a disconnect that closes no session
CloseRequestDropped(p, req) == req

\* sessionPromiseRef.current.then(session => session.close()): close() runs
\* at once on a resolved promise, when it resolves on a pending one, and
\* never on a rejected one
CloseRequest(p, req) ==
    IF p = "resolved" THEN "sent"
    ELSE IF p = "pending" /\ req = "no" THEN "queued"
    ELSE req

\* what disconnect() makes of the state it writes
DisconnectEffect(req, closed, sref, iref, oref, prom) ==
    [closeReq |-> IF sref = NullRef THEN req
                  ELSE [req EXCEPT ![sref] = CloseRequest(prom[sref], @)],
     ctxClosed |-> closed \cup ({iref, oref} \ {NullRef}),
     isConnected |-> FALSE,
     isSpeaking |-> FALSE]

\* disconnect()
Disconnect ==
    /\ LET after == DisconnectEffect(closeReq, ctxClosed, sessionPromiseRef,
                                     inputAudioContextRef,
                                     outputAudioContextRef, promise)
       IN  /\ closeReq' = after.closeReq
           /\ ctxClosed' = after.ctxClosed
           /\ isConnected' = after.isConnected
           /\ isSpeaking' = after.isSpeaking
    /\ UNCHANGED <<error, refs, apiKey, conn, promise, link, capturing, ctxTime,
                   nextStartTimeRef, sourcesRef, received, unit,
                   interruptMark, toolVars, storeVars>>

----------------------------------------------------------------------------
(* Persistence Service *)

\* The document is created at start-up and only ever rewritten whole by
\* saveDb with JSON.stringify, so getDb always reads it back as written:
\* `users` is both the file's content and what getDb returns.  A failing
\* write (saveDb returning false) leaves the file as it was.

\* (mutant) a lookup that compares the phone with the wrong field
FindByPhoneWrongField(us, phone) ==
    LET hits == {k \in 1..Len(us) : us[k].name = phone}
    IN  IF hits = {} THEN 0 ELSE CHOOSE k \in hits : \A j \in hits : k <= j

\* db.users.find(u => u.phone === phone): the position of the first match, or 0
FindByPhone(us, phone) ==
    LET hits == {k \in 1..Len(us) : us[k].phone = phone}
    IN  IF hits = {} THEN 0 ELSE CHOOSE k \in hits : \A j \in hits : k <= j

\* db.users.findIndex(u => u.id === id): the position of the first match, or 0
FindById(us, id) ==
    LET hits == {k \in 1..Len(us) : us[k].id = id}
    IN  IF hits = {} THEN 0 ELSE CHOOSE k \in hits : \A j \in hits : k <= j

\* (mutant) a comparison that accepts every password
PasswordDiffersNever(stored, supplied) == FALSE

\* user.password !== password
PasswordDiffers(stored, supplied) == stored # supplied

\* (mutant) a copy that keeps the password
UserSafeKeepsPassword(u) == u

\* const { password, ...userSafe } = user
UserSafe(u) == [id |-> u.id, phone |-> u.phone, name |-> u.name, bio |-> u.bio]

\* the identity record that register builds
NewUser(now, phone, password, name) ==
    [id |-> ToString(now), phone |-> phone, password |-> password,
     name |-> name, bio |-> "new-user"]

Response(op, status, body) == [op |-> op, status |-> status, body |-> body]

\* POST /api/auth/register
Register(phone, password, name, saveOk) ==
    LET newUser == NewUser(dbNow, phone, password, name)
    IN  /\ IF phone = Missing \/ password = Missing \/ name = Missing
           THEN /\ resp' = Response("register", 400, NoBody)
                /\ UNCHANGED users
           ELSE IF FindByPhone(users, phone) # 0
           THEN /\ resp' = Response("register", 409, NoBody)
                /\ UNCHANGED users
           ELSE /\ Len(users) < MaxUsers
                /\ IF saveOk
                   THEN /\ users' = Append(users, newUser)
                        /\ resp' = Response("register", 200, UserSafe(newUser))
                   ELSE /\ resp' = Response("register", 500, NoBody)
                        /\ UNCHANGED users
        /\ UNCHANGED <<sessions, dbNow, bridgeVars>>

\* POST /api/auth/login
Login(phone, password) ==
    LET k == FindByPhone(users, phone)
    IN  /\ resp' =
              IF phone = Missing \/ password = Missing
              THEN Response("login", 400, NoBody)
              ELSE IF k = 0
              THEN Response("login", 404, NoBody)
              ELSE IF PasswordDiffers(users[k].password, password)
              THEN Response("login", 401, NoBody)
              ELSE Response("login", 200, UserSafe(users[k]))
        /\ UNCHANGED <<users, sessions, dbNow, bridgeVars>>

\* POST /api/user/update: every field of the request replaces the stored
\* one, except the password; the result of saveDb is not looked at
UpdateIdentity(body, saveOk) ==
    LET k == FindById(users, body.id)
    IN  /\ IF body.id = Missing
           THEN /\ resp' = Response("update", 400, NoBody)
                /\ UNCHANGED users
           ELSE IF k # 0
           THEN /\ users' = IF saveOk
                            THEN [users EXCEPT ![k] =
                                    [body EXCEPT !.password = users[k].password]]
                            ELSE users
                /\ resp' = Response("update", 200, body)
           ELSE /\ resp' = Response("update", 404, NoBody)
                /\ UNCHANGED users
        /\ UNCHANGED <<sessions, dbNow, bridgeVars>>

\* GET /api/user/:id
GetIdentity(id) ==
    LET k == FindById(users, id)
    IN  /\ resp' = IF k # 0
                   THEN Response("get", 200, UserSafe(users[k]))
                   ELSE Response("get", 404, NoBody)
        /\ UNCHANGED <<users, sessions, dbNow, bridgeVars>>

\* db.sessions.findIndex(s => s.id === session.id): the position of the
\* first match, or 0
FindSession(ss, id) ==
    LET hits == {k \in 1..Len(ss) : ss[k].id = id}
    IN  IF hits = {} THEN 0 ELSE CHOOSE k \in hits : \A j \in hits : k <= j

\* (mutant) an upsert that always appends
UpsertAlwaysAppends(ss, session) == Append(ss, session)

\* replace the first record with the id of the request, or append
Upsert(ss, session) ==
    LET k == FindSession(ss, session.id)
    IN  IF k # 0 THEN [ss EXCEPT ![k] = session] ELSE Append(ss, session)

\* POST /api/sessions: the result of saveDb is not looked at
UpsertSession(session, saveOk) ==
    /\ sessions' = IF saveOk THEN Upsert(sessions, session) ELSE sessions
    /\ resp' = Response("upsert", 200, session)
    /\ UNCHANGED <<users, dbNow, bridgeVars>>

\* (mutant) a filter with the test inverted
WithoutIdInverted(ss, id) == SelectSeq(ss, LAMBDA s : s.id = id)

\* db.sessions.filter(s => s.id !== req.params.id)
WithoutId(ss, id) == SelectSeq(ss, LAMBDA s : s.id # id)

\* DELETE /api/sessions/:id: the result of saveDb is not looked at
DeleteSession(id, saveOk) ==
    LET kept == WithoutId(sessions, id)
    IN  /\ IF Len(kept) # Len(sessions)
           THEN /\ sessions' = IF saveOk THEN kept ELSE sessions
                /\ resp' = Response("delete", 200, [success |-> TRUE])
           ELSE /\ resp' = Response("delete", 404, NoBody)
                /\ UNCHANGED sessions
        /\ UNCHANGED <<users, dbNow, bridgeVars>>

\* the server's clock advances
StoreTick ==
    /\ dbNow < MaxNow
    /\ dbNow' = dbNow + 1
    /\ UNCHANGED <<users, sessions, resp, bridgeVars>>

StoreInit ==
    /\ users = <<>>
    /\ sessions = <<>>
    /\ dbNow = 1
    /\ resp = Response("none", 0, NoBody)

----------------------------------------------------------------------------
(* Specifications *)

BridgeInit ==
    /\ isConnected = FALSE
    /\ isSpeaking = FALSE
    /\ error = NoError
    /\ inputAudioContextRef = NullRef
    /\ outputAudioContextRef = NullRef
    /\ sessionPromiseRef = NullRef
    /\ nextStartTimeRef = 0
    /\ sourcesRef = {}
    /\ apiKey \in BOOLEAN
    /\ conn = [i \in Conns |-> "none"]
    /\ promise = [i \in Conns |-> "none"]
    /\ link = [i \in Conns |-> "none"]
    /\ closeReq = [i \in Conns |-> "no"]
    /\ capturing = {}
    /\ ctxClosed = {}
    /\ ctxTime = [i \in Conns |-> 0]
    /\ received = 0
    /\ unit = [m \in MsgIds |-> NoUnit]
    /\ calls = <<>>
    /\ toolResponses = <<>>
    /\ frames = [i \in Conns |-> 0]
    /\ interruptMark = 0

Init == BridgeInit /\ StoreInit

BridgeNext ==
    \/ \E i \in Conns : Connect(i)
    \/ \E i \in Conns : MicGranted(i)
    \/ \E i \in Conns : MicDenied(i)
    \/ \E i \in Conns : LiveConnect(i)
    \/ \E i \in Conns : InstructionFailed(i)
    \/ \E i \in Conns : OnOpen(i)
    \/ \E i \in Conns : HandshakeRejected(i)
    \/ \E i \in Conns : OnClose(i)
    \/ \E i \in Conns : OnError(i)
    \/ \E i \in Conns : AudioProcess(i)
    \/ Disconnect
    \/ \E i \in Conns, audio \in BOOLEAN, intr \in BOOLEAN,
          fcs \in CallSeqs(MaxCalls) : OnMessage(i, audio, intr, fcs)
    \/ \E m \in MsgIds, dur \in Durations : DecodeResolved(m, dur)
    \/ \E m \in MsgIds : DecodeRejected(m)
    \/ \E m \in MsgIds : Ended(m)
    \/ Tick

BridgeSpec == Init /\ [][BridgeNext]_vars

\* The playback of one session: the first connect() succeeds, and the session
\* delivers messages that carry an audio chunk, an interruption flag, both or
\* neither (and no function call).
PlaybackNext ==
    \/ Connect(1)
    \/ MicGranted(1)
    \/ LiveConnect(1)
    \/ OnOpen(1)
    \/ \E audio \in BOOLEAN, intr \in BOOLEAN : OnMessage(1, audio, intr, <<>>)
    \/ \E m \in MsgIds, dur \in Durations : DecodeResolved(m, dur)
    \/ \E m \in MsgIds : DecodeRejected(m)
    \/ \E m \in MsgIds : Ended(m)
    \/ Tick

\* the states after construction in a build that has a credential
ConfiguredInit == Init /\ apiKey = TRUE

PlaybackSpec == ConfiguredInit /\ [][PlaybackNext]_vars

\* The life cycle of the sessions: every connect() call with each of its
\* outcomes, the session callbacks, the capture loop and disconnect(); the
\* sessions deliver plain audio chunks, whose units never play to their end.
LifecycleNext ==
    \/ \E i \in Conns : Connect(i)
    \/ \E i \in Conns : MicGranted(i)
    \/ \E i \in Conns : MicDenied(i)
    \/ \E i \in Conns : LiveConnect(i)
    \/ \E i \in Conns : InstructionFailed(i)
    \/ \E i \in Conns : OnOpen(i)
    \/ \E i \in Conns : HandshakeRejected(i)
    \/ \E i \in Conns : OnClose(i)
    \/ \E i \in Conns : OnError(i)
    \/ \E i \in Conns : AudioProcess(i)
    \/ Disconnect
    \/ \E i \in Conns : OnMessage(i, TRUE, FALSE, <<>>)
    \/ \E m \in MsgIds, dur \in Durations : DecodeResolved(m, dur)

LifecycleSpec == Init /\ [][LifecycleNext]_vars

\* The tool calls of one session: the first connect() succeeds, and the
\* session delivers messages that carry one function call or more, with or
\* without an audio chunk and the interruption flag.
ToolNext ==
    \/ Connect(1)
    \/ MicGranted(1)
    \/ LiveConnect(1)
    \/ OnOpen(1)
    \/ \E audio \in BOOLEAN, intr \in BOOLEAN, fcs \in CallSeqs(MaxCalls) \ {<<>>} :
            OnMessage(1, audio, intr, fcs)
    \/ \E m \in MsgIds, dur \in Durations : DecodeResolved(m, dur)
    \/ \E m \in MsgIds : DecodeRejected(m)

ToolSpec == ConfiguredInit /\ [][ToolNext]_vars

\* The identity routes of the persistence service: requests are handled one
\* at a time, each to its end; the bridge takes no step.
StoreNext ==
    \/ \E phone \in Phones \cup {Missing}, password \in Passwords \cup {Missing},
          name \in Names \cup {Missing}, saveOk \in BOOLEAN :
            Register(phone, password, name, saveOk)
    \/ \E phone \in Phones \cup {Missing}, password \in Passwords \cup {Missing} :
            Login(phone, password)
    \/ \E body \in [id : Ids \cup {Missing}, phone : Phones \cup {Missing},
                     password : Passwords \cup {Missing},
                     name : Names \cup {Missing}, bio : {"new-user"}],
          saveOk \in BOOLEAN :
            UpdateIdentity(body, saveOk)
    \/ \E id \in Ids : GetIdentity(id)
    \/ StoreTick

StoreSpec == ConfiguredInit /\ [][StoreNext]_vars

\* The accounts of the persistence service: registrations and logins only,
\* so that every stored identity is one that Register wrote.
AccountNext ==
    \/ \E phone \in Phones \cup {Missing}, password \in Passwords \cup {Missing},
          name \in Names \cup {Missing}, saveOk \in BOOLEAN :
            Register(phone, password, name, saveOk)
    \/ \E phone \in Phones \cup {Missing}, password \in Passwords \cup {Missing} :
            Login(phone, password)
    \/ \E id \in Ids : GetIdentity(id)
    \/ StoreTick

AccountSpec == ConfiguredInit /\ [][AccountNext]_vars

\* the session records a request can carry; the id may be absent
SessionBodies == [id : SessionIds \cup {Missing}, payload : Payloads]

\* The session routes of the persistence service.
SessionNext ==
    \/ \E session \in SessionBodies, saveOk \in BOOLEAN :
            UpsertSession(session, saveOk)
    \/ \E id \in SessionIds, saveOk \in BOOLEAN : DeleteSession(id, saveOk)

SessionSpec == ConfiguredInit /\ [][SessionNext]_vars

\* The routes that rewrite the document, with requests that carry every
\* field.
MutationNext ==
    \/ \E phone \in Phones, password \in Passwords, name \in Names,
          saveOk \in BOOLEAN :
            Register(phone, password, name, saveOk)
    \/ \E body \in [id : Ids, phone : Phones, password : Passwords,
                     name : Names, bio : {"new-user"}],
          saveOk \in BOOLEAN :
            UpdateIdentity(body, saveOk)
    \/ \E session \in [id : SessionIds, payload : Payloads],
          saveOk \in BOOLEAN :
            UpsertSession(session, saveOk)
    \/ \E id \in SessionIds, saveOk \in BOOLEAN : DeleteSession(id, saveOk)
    \/ StoreTick

MutationSpec == ConfiguredInit /\ [][MutationNext]_vars

----------------------------------------------------------------------------
(* Claims about the playback of received audio *)

\* the handler of message m runs its interrupted branch in this step: either
\* the message carries no chunk and is handled on arrival, or its handler
\* resumes after the decode
InterruptRuns(m) ==
    \/ /\ received' = m
       /\ received = m - 1
       /\ interruptMark' = m
       /\ unit'[m].state = "none"
    \/ /\ unit[m].state = "decoding"
       /\ unit[m].interrupted
       /\ unit'[m].state \notin {"decoding", "failed"}

C2_GaplessStart ==
    \A a \in MsgIds, b \in MsgIds :
        ( /\ unit[b].prev = a
          /\ unit[a].state = "playing"
          /\ unit[b].state = "playing"
          /\ interruptMark < a )
        => unit[b].start = unit[a].start + unit[a].dur

\* no interruption, close or disconnect has occurred
Undisturbed ==
    /\ interruptMark = 0
    /\ ctxClosed = {}
    /\ \A i \in Conns : link[i] # "closed"

\* C3 (as claimed): when a chunk arrives before the unit of the preceding
\* chunk has finished, and nothing disturbs the session, speaking is true as
\* long as that chunk is being decoded or its unit is playing.
C3_SpeakingUntilLastUnitEnds ==
    \A b \in MsgIds :
        ( /\ unit[b].prev # 0
          /\ unit[b].state \in {"decoding", "playing"}
          /\ Undisturbed )
        => isSpeaking

\* C4 (as claimed): once an interruption has been processed, no unit of a
\* chunk received before it is in the active set.
C4_InterruptionPriority ==
    \A m \in sourcesRef : m > interruptMark

----------------------------------------------------------------------------
(* Claims about connect, disconnect and the capture loop *)

\* connect i fails in this step for one of the three causes: no credential,
\* microphone denied, handshake rejected
ConnectFails(i) ==
    \/ conn[i] = "none" /\ conn'[i] = "failed"
    \/ conn[i] = "mic" /\ conn'[i] = "failed"
    \/ promise[i] = "pending" /\ promise'[i] = "rejected"

\* C5 (as claimed): when connect fails because no credential is configured,
\* the microphone is denied or the session handshake rejects, error is
\* non-null and connected is false afterwards.
C5_ConnectFailsVisibly ==
    [][\A i \in Conns :
            ConnectFails(i) => error' # NoError /\ isConnected' = FALSE]_vars

\* session i is gone: its onclose or onerror has run, or disconnect() has
\* closed it
Gone(i) == link[i] \in {"closed", "errored"} \/ closeReq[i] = "sent"

\* C6 (as claimed): once a session is gone, the capture loop makes no
\* further sendRealtimeInput call on it.
C6_NoSendAfterGone ==
    [][\A i \in Conns : frames'[i] > frames[i] => ~Gone(i)]_vars

\* C7: disconnect() leaves connected=false and speaking=false in every state,
\* sets no error, requests the close of the session held in sessionPromiseRef
\* (unless its promise rejected), closes the audio channels held in the refs,
\* and a second disconnect() right after it changes nothing.
C7_DisconnectIdempotent ==
    [][Disconnect =>
        /\ isConnected' = FALSE
        /\ isSpeaking' = FALSE
        /\ error' = error
        /\ ( sessionPromiseRef # NullRef
             /\ promise[sessionPromiseRef] \in {"pending", "resolved"} )
           => closeReq'[sessionPromiseRef] \in {"queued", "sent"}
        /\ ({inputAudioContextRef, outputAudioContextRef} \ {NullRef})
              \subseteq ctxClosed'
        /\ DisconnectEffect(closeReq', ctxClosed', sessionPromiseRef',
                            inputAudioContextRef', outputAudioContextRef',
                            promise')
           = [closeReq |-> closeReq', ctxClosed |-> ctxClosed',
              isConnected |-> isConnected', isSpeaking |-> isSpeaking']
    ]_vars

\* C7 witness: disconnect() has run on an open session that was speaking:
\* the close is requested, the channels are closed, the flags are false, and
\* no onclose has run that could have reset them
C7_Witness ==
    /\ sessionPromiseRef # NullRef
    /\ closeReq[sessionPromiseRef] = "sent"
    /\ outputAudioContextRef \in ctxClosed
    /\ inputAudioContextRef \in ctxClosed
    /\ \A i \in Conns : link[i] \in {"none", "up"}
    /\ \E m \in MsgIds : unit[m].state = "playing"
    /\ ~isSpeaking
    /\ ~isConnected

----------------------------------------------------------------------------
(* Claims about the tool calls *)

\* the sendToolResponse calls that carry the id of a call
ResponsesTo(id) == {j \in 1..Len(toolResponses) : toolResponses[j].id = id}

\* C8: every received function call named search_knowledge_base has exactly
\* one tool response with its id, whatever its query and whatever else the
\* message carries; a call with another name has none.
C8_OneResponsePerSearchCall ==
    \A k \in 1..Len(calls) :
        /\ Cardinality(ResponsesTo(calls[k].id)) =
              IF calls[k].name = SearchTool THEN 1 ELSE 0
        /\ \A j \in ResponsesTo(calls[k].id) :
              /\ toolResponses[j].name = calls[k].name
              /\ toolResponses[j].response.result
                    = getLocalKnowledge(calls[k].query)

\* C8 witness: one message carried an audio chunk, the interruption flag, a
\* search_knowledge_base call, which is answered, and a call of another name
C8_Witness ==
    \E k \in 1..Len(calls), o \in 1..Len(calls) :
        /\ calls[k].name = SearchTool
        /\ calls[k].audio
        /\ calls[k].interrupted
        /\ ResponsesTo(calls[k].id) # {}
        /\ calls[o].name # SearchTool
        /\ calls[o].audio
        /\ calls[o].interrupted

----------------------------------------------------------------------------
(* Claims about the persistence service *)

\* the stored identities that have a phone number
WithPhone(us, phone) == {k \in 1..Len(us) : us[k].phone = phone}

\* C9: a Register whose phone a stored identity already has answers 409 and
\* leaves the store unchanged; one whose phone is new either appends one
\* identity, after which exactly one identity has that phone, or fails to
\* write and leaves the store unchanged.  So a Register that follows a
\* successful Register of the same phone answers 409 and the store holds
\* exactly one identity with that phone.
C9_RegisterUniquePhone ==
    [][\A phone \in Phones, password \in Passwords, name \in Names,
          saveOk \in BOOLEAN :
         Register(phone, password, name, saveOk) =>
            /\ IF WithPhone(users, phone) # {}
               THEN resp'.status = 409 /\ users' = users
               ELSE \/ /\ resp'.status = 200
                       /\ Len(users') = Len(users) + 1
                       /\ Cardinality(WithPhone(users', phone)) = 1
                    \/ resp'.status = 500 /\ users' = users
            /\ ( resp.op = "register" /\ resp.status = 200
                 /\ resp.body.phone = phone )
               => /\ resp'.status = 409
                  /\ Cardinality(WithPhone(users', phone)) = 1
    ]_vars

\* C9 witness: a Register was refused with 409 and the store holds the one
\* identity registered before it
C9_Witness ==
    /\ resp.op = "register"
    /\ resp.status = 409
    /\ Len(users) = 1

\* C10: a Login with both fields never modifies the store and answers 404
\* exactly when no stored identity has the phone; 401 only when a stored
\* identity with that phone has another password; 200 only with the body of
\* a stored identity with that phone and that password, less its password.
\* With one identity of that phone, the password alone decides 401 or 200.
C10_LoginOutcomes ==
    [][\A phone \in Phones, password \in Passwords :
         Login(phone, password) =>
            LET hits == WithPhone(users, phone)
            IN  /\ users' = users
                /\ resp'.status \in {404, 401, 200}
                /\ resp'.status = 404 <=> hits = {}
                /\ resp'.status = 401 =>
                      \E k \in hits : users[k].password # password
                /\ resp'.status = 200 =>
                      \E k \in hits : /\ users[k].password = password
                                      /\ resp'.body = UserSafe(users[k])
                /\ \A k \in hits :
                      Cardinality(hits) = 1 =>
                         resp'.status =
                            IF users[k].password = password THEN 200 ELSE 401
    ]_vars

\* C10 witness: a Login with a wrong password was answered 401 for a phone
\* that is registered
C10_Witness ==
    /\ resp.op = "login"
    /\ resp.status = 401
    /\ \E k \in 1..Len(users) : users[k].phone \in Phones

\* C11 (as claimed): no request, an UpdateIdentity with any password value or
\* none included, changes the password of a stored identity, and so a Login
\* with the phone of a stored identity and its password is answered 200.
C11_PasswordSurvivesUpdates ==
    [][ /\ Len(users') >= Len(users)
        /\ \A k \in 1..Len(users) : users'[k].password = users[k].password
        /\ \A phone \in Phones, password \in Passwords :
              ( /\ Login(phone, password)
                /\ \E k \in 1..Len(users) : /\ users[k].phone = phone
                                            /\ users[k].password = password )
              => resp'.status = 200
    ]_vars

\* C20 (as claimed): no two stored identities have the same phone number.
C20_PhonesUnique ==
    \A j \in 1..Len(users), k \in 1..Len(users) :
        (j # k /\ users[j].phone \in Phones) => users[j].phone # users[k].phone

----------------------------------------------------------------------------
(* Claims about the session records *)

\* the stored sessions that have an id
WithId(ss, id) == {k \in 1..Len(ss) : ss[k].id = id}

RECURSIVE KeepOthers(_, _)
\* the records of ss whose id is not id, in their order
KeepOthers(ss, id) ==
    IF ss = <<>> THEN <<>>
    ELSE IF Head(ss).id = id THEN KeepOthers(Tail(ss), id)
    ELSE <<Head(ss)>> \o KeepOthers(Tail(ss), id)

C14_WriteFailureIs500 ==
    [][ /\ \A phone \in Phones, password \in Passwords, name \in Names :
              ( Register(phone, password, name, FALSE)
                /\ FindByPhone(users, phone) = 0 )
              => resp'.status = 500
        /\ \A body \in [id : Ids, phone : Phones, password : Passwords,
                        name : Names, bio : {"new-user"}] :
              ( UpdateIdentity(body, FALSE) /\ FindById(users, body.id) # 0 )
              => resp'.status = 500
        /\ \A session \in SessionBodies :
              UpsertSession(session, FALSE) => resp'.status = 500
        /\ \A id \in SessionIds :
              ( DeleteSession(id, FALSE) /\ WithId(sessions, id) # {} )
              => resp'.status = 500
    ]_vars

----------------------------------------------------------------------------
(* Claims about the returned identities *)

\* body is the identity u with the password field removed and nothing else
\* changed
SafeCopyOf(body, u) ==
    /\ DOMAIN body = DOMAIN u \ {"password"}
    /\ \A f \in DOMAIN body : body[f] = u[f]

\* C15: the body of a 200 answer of Register is the identity it stored, of
\* Login the first stored identity with the phone, of GetIdentity the first
\* stored identity with the id, each without its password field.
C15_NoPasswordReturned ==
    [][ /\ \A phone \in Phones, password \in Passwords, name \in Names :
              ( Register(phone, password, name, TRUE) /\ resp'.status = 200 )
              => /\ Len(users') = Len(users) + 1
                 /\ users'[Len(users')].password = password
                 /\ SafeCopyOf(resp'.body, users'[Len(users')])
        /\ \A phone \in Phones, password \in Passwords :
              ( Login(phone, password) /\ resp'.status = 200 )
              => \E k \in WithPhone(users, phone) :
                    /\ \A j \in WithPhone(users, phone) : k <= j
                    /\ SafeCopyOf(resp'.body, users[k])
        /\ \A id \in Ids :
              ( GetIdentity(id) /\ resp'.status = 200 )
              => \E k \in 1..Len(users) :
                    /\ users[k].id = id
                    /\ \A j \in 1..Len(users) : users[j].id = id => k <= j
                    /\ SafeCopyOf(resp'.body, users[k])
    ]_vars

\* C15 witness: a GetIdentity was answered 200 with an identity that has no
\* password field, while the stored identity has one
C15_Witness ==
    /\ resp.op = "get"
    /\ resp.status = 200
    /\ "password" \notin DOMAIN resp.body
    /\ \E k \in 1..Len(users) :
          users[k].id = resp.body.id /\ users[k].password \in Passwords

----------------------------------------------------------------------------
(* Claims about the bridge across connects and disconnects *)

\* a message handler is part-way through its work: it awaits its decode
HandlerSuspended == \E m \in MsgIds : unit[m].state = "decoding"

\* C16 (as claimed): whenever no message handler is part-way through its
\* work, speaking is true exactly when the active playback set is non-empty.
C16_SpeakingIffActive ==
    ~HandlerSuspended => (isSpeaking <=> sourcesRef # {})

\* disconnect() was the last call of the caller: the audio channels that
\* the refs hold are closed, and connect() would replace them
Disconnected ==
    /\ outputAudioContextRef # NullRef
    /\ outputAudioContextRef \in ctxClosed

\* C17 (as claimed): after disconnect() and until the next connect() call,
\* no step sets connected to true or wires a capture loop.
C17_StaysDisconnected ==
    [][ ( Disconnected /\ ~ \E i \in Conns : Connect(i) )
        => /\ isConnected' = FALSE
           /\ capturing' = capturing
    ]_vars

\* session i is open: its onopen has run, it has neither closed nor failed,
\* and no close() was called on it
Open(i) ==
    promise[i] = "resolved" /\ link[i] = "up" /\ closeReq[i] # "sent"

\* C18 (as claimed): at most one session is open in any state, and a
\* disconnect() requests the close of every session that a connect() opened
\* and that has not closed.
C18_OneSessionAllClosed ==
    [][ /\ Cardinality({i \in Conns : Open(i)}) <= 1
        /\ Disconnect =>
              \A i \in Conns :
                 ( promise[i] \in {"pending", "resolved"} /\ link[i] = "up" )
                 => closeReq'[i] \in {"queued", "sent"}
    ]_vars

\* C19 (as claimed): a connect() that follows a disconnect() starts with an
\* empty active playback set and a scheduling cursor of 0.
C19_FreshPlaybackState ==
    [][ \A i \in Conns :
           ( Disconnected /\ apiKey /\ Connect(i) )
           => /\ sourcesRef' = {}
              /\ nextStartTimeRef' = 0
    ]_vars

====
